---- MODULE Spec2Model ----
(***************************************************************************)
(* Iterative solvers of ffthompy/sparse/solver.py: cheby2TERM,             *)
(* minimal_residual, richardson and richardson_debug, each modelled as one *)
(* call that runs from its entry to a return or a raised exception.        *)
(*                                                                         *)
(* Python 3 semantics are used throughout (line 68 relies on true division *)
(* of 1/2).  Tensors are fields on a grid of two points with rational      *)
(* entries; rank and tol of the call are None, for which truncate returns  *)
(* the tensor unchanged.  Floating point numbers are fractions <<n, d>>    *)
(* with d >= 0 and a bounded mantissa; d = 0 encodes the IEEE values inf   *)
(* (<<1,0>>), -inf (<<-1,0>>) and nan (<<0,0>>) that numpy scalars         *)
(* produce.                                                                *)
(***************************************************************************)
EXTENDS Integers, Sequences, FiniteSets, TLC

\* ------------------------------------------------------------------------
\* Scalars (Python / numpy floating point numbers)
\* ------------------------------------------------------------------------
RECURSIVE GCD(_, _)
GCD(a, b) == IF b = 0 THEN a ELSE GCD(b, a % b)

Abs(n) == IF n < 0 THEN -n ELSE n

Sign(n) == IF n < 0 THEN -1 ELSE IF n = 0 THEN 0 ELSE 1

\* numerators and denominators are kept below Mantissa
Mantissa == 16384

\* the floating point number n/d: in lowest terms where numerator and
\* denominator fit the mantissa, otherwise rounded by halving both
RECURSIVE Frac(_, _)
Frac(n, d) ==
    IF d = 0 THEN <<Sign(n), 0>>
    ELSE LET g == GCD(Abs(n), Abs(d))
             s == Sign(d)
             a == (s * n) \div g
             b == (s * d) \div g
         IN  IF Abs(a) < Mantissa /\ b < Mantissa THEN <<a, b>>
             ELSE Frac(Sign(a) * (Abs(a) \div 2), b \div 2)

Zero == <<0, 1>>

One == <<1, 1>>

Inf == <<1, 0>>

NaN == <<0, 0>>

IsNaN(a) == a = NaN

IsFinite(a) == a[2] # 0

\* a*b, cancelling common factors before multiplying
RMul(a, b) ==
    IF a[2] = 0 \/ b[2] = 0 THEN Frac(a[1] * b[1], 0)
    ELSE LET g1 == GCD(Abs(a[1]), b[2])
             g2 == GCD(Abs(b[1]), a[2])
         IN  Frac((a[1] \div g1) * (b[1] \div g2), (a[2] \div g2) * (b[2] \div g1))

RNeg(a) == <<-a[1], a[2]>>

RAdd(a, b) ==
    IF a[2] = 0 /\ b[2] = 0
    THEN (IF a = b THEN a ELSE NaN)
    ELSE IF a[2] = 0 \/ b[2] = 0 THEN Frac(a[1] * b[2] + b[1] * a[2], 0)
    ELSE LET g == GCD(a[2], b[2])
         IN  Frac(a[1] * (b[2] \div g) + b[1] * (a[2] \div g), (a[2] \div g) * b[2])

RSub(a, b) == RAdd(a, RNeg(b))

\* 1/a as numpy computes it: 1/0 is inf, 1/inf is 0, 1/nan is nan
RInv(a) ==
    IF a[1] = 0 THEN (IF a[2] = 0 THEN NaN ELSE Inf)
    ELSE IF a[1] > 0 THEN <<a[2], a[1]>> ELSE <<-a[2], -a[1]>>

RDiv(a, b) == RMul(a, RInv(b))

\* n1/d1 < n2/d2 for d1, d2 > 0, by the continued fractions of the two
RECURSIVE FracLt(_, _, _, _)
FracLt(n1, d1, n2, d2) ==
    LET q1 == n1 \div d1
        q2 == n2 \div d2
        r1 == n1 % d1
        r2 == n2 % d2
    IN  IF q1 # q2 THEN q1 < q2
        ELSE IF r2 = 0 THEN FALSE
        ELSE IF r1 = 0 THEN TRUE
        ELSE FracLt(d2, r2, d1, r1)

\* a < b; every comparison with nan is false
RLt(a, b) ==
    IF IsNaN(a) \/ IsNaN(b) THEN FALSE
    ELSE IF a[2] = 0 \/ b[2] = 0 THEN a[1] * b[2] < b[1] * a[2] \/ (a[2] = 0 /\ b[2] = 0 /\ a[1] < b[1])
    ELSE FracLt(a[1], a[2], b[1], b[2])

RGt(a, b) == RLt(b, a)

RAbs(a) == <<Abs(a[1]), a[2]>>

RECURSIVE ISqrtIter(_, _)
ISqrtIter(n, g) ==
    LET h == (g + n \div g) \div 2
    IN  IF h >= g THEN g ELSE ISqrtIter(n, h)

\* largest k with k*k <= n
ISqrt(n) == IF n = 0 THEN 0 ELSE ISqrtIter(n, n)

IsSquare(n) == ISqrt(n) * ISqrt(n) = n

\* relative precision kept by a square root that is not rational
Prec == 64

\* floating point square root: exact where the root is rational, otherwise
\* rounded down with relative precision 1/Prec
RSqrt(a) ==
    IF ~IsFinite(a) THEN (IF a = Inf THEN Inf ELSE NaN)
    ELSE IF a[1] < 0 THEN NaN
    ELSE IF IsSquare(a[1]) /\ IsSquare(a[2]) THEN <<ISqrt(a[1]), ISqrt(a[2])>>
    ELSE IF a[1] >= a[2]
    THEN Frac(ISqrt((a[1] * Prec * Prec) \div a[2]), Prec)
    ELSE Frac(Prec, ISqrt((a[2] * Prec * Prec) \div a[1]))

\* ------------------------------------------------------------------------
\* Tensor arithmetic capability (SparseTensor), on a grid of two points
\* ------------------------------------------------------------------------
Vec(a, b) == <<Frac(a, 1), Frac(b, 1)>>

TAdd(X, Y) == <<RAdd(X[1], Y[1]), RAdd(X[2], Y[2])>>

TSub(X, Y) == <<RSub(X[1], Y[1]), RSub(X[2], Y[2])>>

TScale(X, s) == <<RMul(X[1], s), RMul(X[2], s)>>

\* X.inner(Y): the mean of the pointwise products
TInner(X, Y) == RMul(RAdd(RMul(X[1], Y[1]), RMul(X[2], Y[2])), <<1, 2>>)

FiniteT(X) == IsFinite(X[1]) /\ IsFinite(X[2])

\* X.norm(): the square root of X.inner(X), computed relative to the entry
\* of largest magnitude so that the squares stay in range
TNorm(X) ==
    IF ~FiniteT(X) THEN RSqrt(TInner(X, X))
    ELSE LET big == IF RLt(RAbs(X[1]), RAbs(X[2])) THEN RAbs(X[2]) ELSE RAbs(X[1])
             small == IF RLt(RAbs(X[1]), RAbs(X[2])) THEN RAbs(X[1]) ELSE RAbs(X[2])
         IN  IF big = Zero THEN Zero
             ELSE RMul(big, RSqrt(RMul(RAdd(One, RMul(RDiv(small, big), RDiv(small, big))),
                                       <<1, 2>>)))

\* X.mean(): the spatial mean
TMean(X) == RMul(RAdd(X[1], X[2]), <<1, 2>>)

\* FM: the constant field of ones
FM == <<One, One>>

\* X.truncate(rank=None, tol=None) returns X
Truncate(X) == X

\* the operator Afun is diagonal: A = <<a1, a2>> maps X to (a1*X1, a2*X2)
Apply(A, X) == <<RMul(A[1], X[1]), RMul(A[2], X[2])>>

\* (-FM*x.mean()+x).truncate(rank=rank, tol=tol)
MeanCorrect(X) == Truncate(TAdd(TScale(FM, RNeg(TMean(X))), X))

\* ------------------------------------------------------------------------
\* Python values
\* ------------------------------------------------------------------------
PyList(items) == [type |-> "list", items |-> items]

\* res['norm_res'] = 0
PyIntZero == [type |-> "int", items |-> << >>]

\* a < b for a float a: ordering a float against a list raises TypeError
PyLess(a, b) ==
    IF b.type = "list" THEN "TypeError"
    ELSE IF RLt(a, Zero) THEN "True" ELSE "False"

\* a type test that lets integers through as well
IsFloatOrInt(alpha) == alpha.type \in {"float", "int"}

\* isinstance(par['alpha'], float)
IsFloat(alpha) == alpha.type = "float"

\* a default that replaces the value the caller gave
SetDefaultOverwrite(m, key, val) == (key :> val) @@ m

\* if key not in par: par[key] = val
SetDefault(m, key, val) == IF key \in DOMAIN m THEN m ELSE m @@ (key :> val)

\* ------------------------------------------------------------------------
\* Inputs of a call
\* ------------------------------------------------------------------------
MaxIter == 3

Solvers == {"cheby2TERM", "minimal_residual", "richardson", "richardson_debug"}

\* right-hand sides: zero, zero mean, non-zero mean
BSet == {Vec(0, 0), Vec(1, -1), Vec(7, 1)}

NoX0 == [none |-> TRUE, val |-> Vec(0, 0)]

X0Set == {NoX0} \cup {[none |-> FALSE, val |-> X] : X \in {Vec(0, 0), Vec(1, 1)}}

\* an operator on which minimal_residual converges slowly: diag(1, 4)
SlowAfun == Vec(1, 4)

\* identity, 3*identity, -identity, the zero operator, diag(1, 4)
AfunSet == {Vec(1, 1), Vec(3, 3), Vec(-1, -1), Vec(0, 0), SlowAfun}

TolSet == {<<1, 1000>>, <<1, 2>>}

EigSet == {<<One, One>>, <<One, Frac(3, 1)>>, <<Zero, Zero>>}

AlphaSet ==
    {[type |-> "float", val |-> q] : q \in {One, Frac(2, 1), Zero}}
        \cup {[type |-> "int", val |-> Frac(2, 1)], [type |-> "str", val |-> Zero]}

Restrict(m, K) == [k \in K |-> m[k]]

ChebyPars ==
    {Restrict(m, K) : m \in [tol : TolSet, maxiter : 0..MaxIter, eigrange : EigSet],
                      K \in SUBSET {"tol", "maxiter", "eigrange"}}

\* budgets of minimal_residual: the short ones and, with the slowly
\* converging operator, one that reaches the iteration whose residuum is
\* recomputed
LongRun == 10

MinresPars ==
    [tol : TolSet, maxiter : 0..MaxIter \cup {LongRun}, approx_omega : BOOLEAN,
     divcrit : BOOLEAN]

RichardsonPars ==
    [alpha : AlphaSet, tol : TolSet, maxiter : 0..MaxIter, divcrit : BOOLEAN]

\* ------------------------------------------------------------------------
\* State of one call
\* ------------------------------------------------------------------------
VARIABLES
    solver,     \* the function called
    Afun, B, x0, callback,
    par0,       \* the caller's mapping as it was at the call
    parNone,    \* par is None at the call
    npfloat,    \* norms are numpy scalars (x/0 is inf or nan) or Python floats (x/0 raises)
    par,        \* the mapping the solver reads and writes
    pc,         \* "call", "loop", "returned", "raised"
    exc,        \* the exception raised
    x, r, residuum, v, beta, p, w, omega, norm_res, r0, Ib,
    x_prev,     \* x as the current pass of the loop found it
    residuum_prev, \* residuum as the current pass of the loop found it
    res,        \* [norm_res, kit]
    broke,      \* the loop was left by break
    nAfun,      \* applications of Afun so far
    nCallback,  \* invocations of callback so far
    printed     \* the message printed

inputs == <<solver, Afun, B, x0, callback, par0, parNone, npfloat>>

locals ==
    <<x, x_prev, r, residuum, residuum_prev, v, beta, p, w, omega, norm_res, r0, Ib, res, broke>>

vars == <<inputs, par, pc, exc, locals, nAfun, nCallback, printed>>

Init ==
    /\ solver \in Solvers
    /\ Afun \in AfunSet
    /\ B \in BSet
    /\ x0 \in X0Set
    /\ npfloat \in BOOLEAN
    /\ \/ /\ solver = "cheby2TERM"
          /\ callback \in BOOLEAN
          /\ \/ parNone = TRUE /\ par0 = << >>
             \/ parNone = FALSE /\ par0 \in ChebyPars
       \/ /\ solver = "minimal_residual"
          /\ callback = FALSE
          /\ parNone = FALSE
          /\ par0 \in MinresPars
          /\ par0.maxiter > MaxIter => Afun = SlowAfun
       \/ /\ solver \in {"richardson", "richardson_debug"}
          /\ callback = FALSE
          /\ parNone = FALSE
          /\ par0 \in RichardsonPars
    /\ par = par0
    /\ pc = "call"
    /\ exc = "None"
    /\ x = Vec(0, 0) /\ x_prev = Vec(0, 0) /\ r = Vec(0, 0) /\ residuum = Vec(0, 0)
    /\ v = Vec(0, 0) /\ beta = Vec(0, 0) /\ residuum_prev = Vec(0, 0)
    /\ p = Zero /\ w = Zero /\ omega = Zero /\ norm_res = Zero /\ r0 = Zero /\ Ib = Zero
    /\ res = [norm_res |-> PyList(<< >>), kit |-> 0]
    /\ broke = FALSE
    /\ nAfun = 0
    /\ nCallback = 0
    /\ printed = "None"

\* raise: the call ends with exception e
Raise(e) == pc' = "raised" /\ exc' = e

\* while (norm_res > par['tol']) and (res['kit'] < par['maxiter'])
LoopCond(last, m, kit) == RGt(last, m.tol) /\ kit < m.maxiter

\* ------------------------------------------------------------------------
\* cheby2TERM
\* ------------------------------------------------------------------------
\* lines 26-29
ChebyDefaults(m) == SetDefault(SetDefault(m, "tol", <<1, 1000000>>), "maxiter", 10000000)

\* d = (Egv[1]+Egv[0])/2.0 and c = (Egv[1]-Egv[0])/2.0
ChebyD(Egv) == RMul(RAdd(Egv[2], Egv[1]), <<1, 2>>)

ChebyC(Egv) == RMul(RSub(Egv[2], Egv[1]), <<1, 2>>)

\* the divisor of w in iteration kit; Python raises where it is zero
ChebyWDen(kit, c, d, wp) ==
    IF kit = 1 THEN d
    ELSE IF kit = 2 THEN RSub(d, RDiv(RMul(RMul(c, c), <<1, 2>>), d))
    ELSE RSub(d, RMul(RMul(RMul(c, c), wp), <<1, 4>>))

\* the coefficients with p of the second iteration taken as -(c/(2d))^2
ChebyCoefHalfSquared(kit, c, d, wp) ==
    IF kit = 1 THEN <<Zero, RInv(d)>>
    ELSE IF kit = 2
    THEN <<RNeg(RMul(RDiv(c, RMul(<<2, 1>>, d)), RDiv(c, RMul(<<2, 1>>, d)))),
           RInv(ChebyWDen(2, c, d, wp))>>
    ELSE <<RMul(RNeg(RMul(RMul(c, c), <<1, 4>>)), RMul(wp, wp)), RInv(ChebyWDen(kit, c, d, wp))>>

\* <<p, w>> of iteration kit, wp being w as the previous iteration left it
ChebyCoef(kit, c, d, wp) ==
    IF kit = 1 THEN <<Zero, RInv(d)>>
    ELSE IF kit = 2
    THEN <<RMul(RNeg(<<1, 2>>), RMul(RDiv(c, d), RDiv(c, d))), RInv(ChebyWDen(2, c, d, wp))>>
    ELSE <<RMul(RNeg(RMul(RMul(c, c), <<1, 4>>)), RMul(wp, wp)), RInv(ChebyWDen(kit, c, d, wp))>>

cheby2TERM_setup ==
    /\ pc = "call" /\ solver = "cheby2TERM"
    /\ LET par1 == ChebyDefaults(IF parNone THEN << >> ELSE par)
           bnrm2 == TNorm(B)
           xi == IF x0.none THEN B ELSE x0.val
           ri == TSub(B, Apply(Afun, xi))
           nr == RMul(RInv(bnrm2), TNorm(ri))
       IN  /\ par' = par1
           /\ IF "eigrange" \notin DOMAIN par1
              THEN /\ Raise("NotImplementedError")
                   /\ UNCHANGED <<locals, nAfun>>
              ELSE IF bnrm2 = Zero /\ ~npfloat
              THEN /\ Raise("ZeroDivisionError")
                   /\ UNCHANGED <<locals, nAfun>>
              ELSE /\ Ib' = RInv(bnrm2)
                   /\ x' = xi
                   /\ r' = ri
                   /\ r0' = TNorm(ri)
                   /\ nAfun' = nAfun + 1
                   /\ res' = [norm_res |-> PyList(<<nr>>), kit |-> 0]
                   /\ IF RLt(nr, par1.tol)
                      THEN pc' = "returned" /\ v' = v
                      ELSE pc' = "loop" /\ v' = TScale(xi, Zero)
                   /\ UNCHANGED <<exc, x_prev, residuum_prev, residuum, beta, p, w, omega, norm_res, broke>>
    /\ UNCHANGED <<inputs, nCallback, printed>>

cheby2TERM_iter ==
    /\ pc = "loop" /\ solver = "cheby2TERM"
    /\ LoopCond(res.norm_res.items[res.kit + 1], par, res.kit)
    /\ res.kit < MaxIter
    /\ LET kit == res.kit + 1
           d == ChebyD(par.eigrange)
           c == ChebyC(par.eigrange)
           pw == ChebyCoef(kit, c, d, w)
           vn == Truncate(TSub(r, TScale(v, pw[1])))
           xn == MeanCorrect(TAdd(x, TScale(vn, pw[2])))
           rn == TSub(B, Apply(Afun, xn))
       IN  IF d = Zero \/ ChebyWDen(kit, c, d, w) = Zero
           THEN /\ Raise("ZeroDivisionError")
                /\ res' = [res EXCEPT !.kit = kit]
                /\ x_prev' = x
                /\ UNCHANGED <<x, r, v, p, w, nAfun, nCallback>>
           ELSE /\ x_prev' = x
                /\ p' = pw[1] /\ w' = pw[2]
                /\ v' = vn /\ x' = xn /\ r' = rn
                /\ nAfun' = nAfun + 1
                /\ IF r0 = Zero /\ ~npfloat
                   THEN /\ Raise("ZeroDivisionError")
                        /\ res' = [res EXCEPT !.kit = kit]
                        /\ UNCHANGED nCallback
                   ELSE /\ res' = [norm_res |-> PyList(Append(res.norm_res.items,
                                                       RMul(RInv(r0), TNorm(rn)))),
                                   kit |-> kit]
                        /\ nCallback' = IF callback THEN nCallback + 1 ELSE nCallback
                        /\ UNCHANGED <<pc, exc>>
    /\ UNCHANGED <<inputs, par, residuum, residuum_prev, beta, omega, norm_res, r0, Ib, broke,
                   printed>>

cheby2TERM_report ==
    /\ pc = "loop" /\ solver = "cheby2TERM"
    /\ ~LoopCond(res.norm_res.items[res.kit + 1], par, res.kit)
    /\ LET less == PyLess(par.tol, res.norm_res)
       IN  IF less = "TypeError"
           THEN /\ Raise("TypeError")
                /\ UNCHANGED <<res, printed>>
           ELSE /\ printed' = IF less = "True"
                              THEN "Chebyshev solver does not converges!"
                              ELSE "Chebyshev solver converges."
                /\ res' = IF res.kit = 0 THEN [res EXCEPT !.norm_res = PyIntZero] ELSE res
                /\ pc' = "returned"
                /\ UNCHANGED exc
    /\ UNCHANGED <<inputs, par, x, x_prev, residuum_prev, r, residuum, v, beta, p, w, omega, norm_res,
                   r0, Ib, broke, nAfun, nCallback>>

\* ------------------------------------------------------------------------
\* minimal_residual
\* ------------------------------------------------------------------------
\* the divergence test with its comparison turned round
DivergingReversed(divcrit, nr, items, kit) == divcrit /\ RLt(nr, items[kit])

\* par['divcrit'] and norm_res > res['norm_res'][res['kit']-1], kit already counted
Diverging(divcrit, nr, items, kit) == divcrit /\ RGt(nr, items[kit])

\* beta.inner(residuum)/norm(beta)**2, computed as the inner product of
\* beta/norm(beta) and residuum/norm(beta) so that no square leaves the
\* range of the floats
ExactOmega(bet, resid) ==
    TInner(TScale(bet, RInv(TNorm(bet))), TScale(resid, RInv(TNorm(bet))))

\* lines 119-128: the step size
MinresOmega(approx_omega, nr, bet, resid) ==
    IF approx_omega \/ RLt(RAbs(ExactOmega(bet, resid)), <<1, 10>>)
    THEN RDiv(nr, TNorm(bet))
    ELSE ExactOmega(bet, resid)

\* if res['kit']%10==0
TrueResiduumEvery == 10

\* lines 133-136: every 10 iterations the true residuum, else the updated one
MinresResiduum(kit, xn, resid, bet, om) ==
    IF kit % TrueResiduumEvery = 0 THEN TSub(B, Apply(Afun, xn))
    ELSE Truncate(TSub(resid, TScale(bet, om)))

minimal_residual_setup ==
    /\ pc = "call" /\ solver = "minimal_residual"
    /\ LET xi == IF x0.none THEN B ELSE x0.val
           ri == TSub(B, Apply(Afun, xi))
       IN  /\ x' = xi
           /\ residuum' = ri
           /\ res' = [norm_res |-> PyList(<<TNorm(ri)>>), kit |-> 0]
           /\ beta' = Apply(Afun, ri)
           /\ norm_res' = TNorm(ri)
    /\ nAfun' = nAfun + 2
    /\ pc' = "loop"
    /\ UNCHANGED <<inputs, par, exc, x_prev, residuum_prev, r, v, p, w, omega, r0, Ib, broke,
                   nCallback, printed>>

\* lines 117-148: one pass of the loop body
minimal_residual_iter ==
    /\ pc = "loop" /\ solver = "minimal_residual" /\ ~broke
    /\ LoopCond(norm_res, par, res.kit)
    /\ x_prev' = x /\ residuum_prev' = residuum
    /\ IF TNorm(beta) = Zero /\ ~npfloat
       THEN /\ Raise("ZeroDivisionError")
            /\ res' = [res EXCEPT !.kit = res.kit + 1]
            /\ UNCHANGED <<x, residuum, beta, omega, norm_res, broke, nAfun>>
       ELSE /\ omega' = MinresOmega(par.approx_omega, norm_res, beta, residuum)
            /\ x' = MeanCorrect(TAdd(x, TScale(residuum, omega')))
            /\ residuum' = MinresResiduum(res.kit + 1, x', residuum, beta, omega')
            /\ norm_res' = TNorm(residuum')
            /\ broke' = Diverging(par.divcrit, norm_res', res.norm_res.items, res.kit + 1)
            /\ res' = [norm_res |-> IF broke' THEN res.norm_res
                                    ELSE PyList(Append(res.norm_res.items, norm_res')),
                       kit |-> res.kit + 1]
            /\ beta' = IF broke' THEN beta ELSE Apply(Afun, residuum')
            /\ nAfun' = nAfun + (IF (res.kit + 1) % TrueResiduumEvery = 0 THEN 1 ELSE 0)
                              + (IF broke' THEN 0 ELSE 1)
            /\ UNCHANGED <<pc, exc>>
    /\ UNCHANGED <<inputs, par, r, v, p, w, r0, Ib, nCallback, printed>>

minimal_residual_return ==
    /\ pc = "loop" /\ solver = "minimal_residual"
    /\ broke \/ ~LoopCond(norm_res, par, res.kit)
    /\ pc' = "returned"
    /\ UNCHANGED <<inputs, par, exc, locals, nAfun, nCallback, printed>>

\* ------------------------------------------------------------------------
\* richardson
\* ------------------------------------------------------------------------
\* norm_res=1e15, scaled to the width of the model's integers
NormResInit == 1000000000

\* the loop body with the update of x made before the divergence test
RichardsonBodyUpdateFirst(xv, rs, om, m) ==
    LET kit == rs.kit + 1
        rn == TSub(B, Apply(Afun, xv))
        nn == TNorm(rn)
        brk == Diverging(m.divcrit, nn, rs.norm_res.items, kit)
    IN  [x |-> MeanCorrect(TAdd(xv, TScale(rn, om))),
         residuum |-> rn, norm_res |-> nn, broke |-> brk,
         res |-> [norm_res |-> IF brk THEN rs.norm_res
                               ELSE PyList(Append(rs.norm_res.items, nn)),
                  kit |-> kit]]

\* lines 174-183: one pass of the loop body, from the locals to the locals
RichardsonBody(xv, rs, om, m) ==
    LET kit == rs.kit + 1
        rn == TSub(B, Apply(Afun, xv))
        nn == TNorm(rn)
        brk == Diverging(m.divcrit, nn, rs.norm_res.items, kit)
    IN  [x |-> IF brk THEN xv ELSE MeanCorrect(TAdd(xv, TScale(rn, om))),
         residuum |-> rn, norm_res |-> nn, broke |-> brk,
         res |-> [norm_res |-> IF brk THEN rs.norm_res
                               ELSE PyList(Append(rs.norm_res.items, nn)),
                  kit |-> kit]]

\* lines 153-156 and 188-191
RichardsonOmega ==
    /\ pc = "call"
    /\ IF ~IsFloat(par.alpha)
       THEN Raise("ValueError") /\ omega' = omega
       ELSE IF par.alpha.val = Zero
       THEN Raise("ZeroDivisionError") /\ omega' = omega
       ELSE pc' = "loop" /\ omega' = RInv(par.alpha.val) /\ exc' = exc

richardson_setup ==
    /\ solver = "richardson"
    /\ RichardsonOmega
    /\ IF pc' = "loop"
       THEN /\ x' = IF x0.none THEN TScale(B, omega') ELSE x0.val
            /\ res' = [norm_res |-> PyList(<<TNorm(B)>>), kit |-> 0]
            /\ norm_res' = <<NormResInit, 1>>
       ELSE UNCHANGED <<x, res, norm_res>>
    /\ UNCHANGED <<inputs, par, x_prev, residuum_prev, r, residuum, v, beta, p, w, r0, Ib, broke,
                   nAfun, nCallback, printed>>

richardson_iter ==
    /\ pc = "loop" /\ solver = "richardson" /\ ~broke
    /\ LoopCond(norm_res, par, res.kit)
    /\ x_prev' = x /\ residuum_prev' = residuum
    /\ LET n == RichardsonBody(x, res, omega, par)
       IN  /\ x' = n.x
           /\ residuum' = n.residuum
           /\ norm_res' = n.norm_res
           /\ res' = n.res
           /\ broke' = n.broke
    /\ nAfun' = nAfun + 1
    /\ UNCHANGED <<inputs, par, pc, exc, r, v, beta, p, w, omega, r0, Ib, nCallback, printed>>

richardson_return ==
    /\ pc = "loop" /\ solver = "richardson"
    /\ broke \/ ~LoopCond(norm_res, par, res.kit)
    /\ pc' = "returned"
    /\ UNCHANGED <<inputs, par, exc, locals, nAfun, nCallback, printed>>

\* ------------------------------------------------------------------------
\* richardson_debug
\* ------------------------------------------------------------------------
\* lines 206-219: one pass of the loop body, from the locals to the locals
RichardsonDebugBody(xv, rs, om) ==
    LET rn == TSub(B, Apply(Afun, xv))
    IN  [x |-> Truncate(TAdd(xv, TScale(rn, om))),
         residuum |-> rn, norm_res |-> TNorm(rn),
         res |-> [norm_res |-> PyList(Append(rs.norm_res.items, TNorm(rn))),
                  kit |-> rs.kit + 1]]

richardson_debug_setup ==
    /\ solver = "richardson_debug"
    /\ RichardsonOmega
    /\ IF pc' = "loop"
       THEN /\ x' = Truncate(IF x0.none THEN TScale(B, omega') ELSE x0.val)
            /\ norm_res' = <<NormResInit, 1>>
       ELSE UNCHANGED <<x, norm_res>>
    /\ UNCHANGED <<inputs, par, x_prev, residuum_prev, r, residuum, v, beta, p, w, r0, Ib, res, broke,
                   nAfun, nCallback, printed>>

richardson_debug_iter ==
    /\ pc = "loop" /\ solver = "richardson_debug"
    /\ LoopCond(norm_res, par, res.kit)
    /\ x_prev' = x /\ residuum_prev' = residuum
    /\ LET n == RichardsonDebugBody(x, res, omega)
       IN  /\ x' = n.x
           /\ residuum' = n.residuum
           /\ norm_res' = n.norm_res
           /\ res' = n.res
    /\ nAfun' = nAfun + 1
    /\ UNCHANGED <<inputs, par, pc, exc, r, v, beta, p, w, omega, r0, Ib, broke,
                   nCallback, printed>>

\* line 221: the final residual norm is appended, then the call returns
richardson_debug_return ==
    /\ pc = "loop" /\ solver = "richardson_debug"
    /\ ~LoopCond(norm_res, par, res.kit)
    /\ res' = [res EXCEPT !.norm_res =
                   PyList(Append(res.norm_res.items, TNorm(TSub(B, Apply(Afun, x)))))]
    /\ nAfun' = nAfun + 1
    /\ pc' = "returned"
    /\ UNCHANGED <<inputs, par, exc, x, x_prev, residuum_prev, r, residuum, v, beta, p, w, omega, norm_res,
                   r0, Ib, broke, nCallback, printed>>

Next ==
    \/ cheby2TERM_setup
    \/ cheby2TERM_iter
    \/ cheby2TERM_report
    \/ minimal_residual_setup
    \/ minimal_residual_iter
    \/ minimal_residual_return
    \/ richardson_setup
    \/ richardson_iter
    \/ richardson_return
    \/ richardson_debug_setup
    \/ richardson_debug_iter
    \/ richardson_debug_return

Spec == Init /\ [][Next]_vars

\* ------------------------------------------------------------------------
\* Properties
\* ------------------------------------------------------------------------
items == res.norm_res.items

\* no number of a run on Python floats is inf or nan
AllFinite ==
    ~npfloat =>
        /\ FiniteT(x) /\ FiniteT(r) /\ FiniteT(residuum) /\ FiniteT(v) /\ FiniteT(beta)
        /\ IsFinite(p) /\ IsFinite(w) /\ IsFinite(omega) /\ IsFinite(norm_res)
        /\ IsFinite(r0) /\ IsFinite(Ib)
        /\ \A i \in 1..Len(items) : IsFinite(items[i])

Returned == pc = "returned"

Ended == pc \in {"returned", "raised"}

Identity == Vec(1, 1)

\* C1: on return of any solver, norm_res is a sequence of kit + 1 entries.
C1_HistoryLength ==
    Returned => res.norm_res.type = "list" /\ Len(items) = res.kit + 1

\* C2 as stated: minimal_residual or richardson stopped by the divergence
\* criterion returns x as the stopping iteration found it.
C2_PreDivergenceIterate ==
    (Returned /\ broke) => x = x_prev

\* C2 as amended: stopped by the divergence criterion, richardson returns x
\* as the stopping iteration found it; minimal_residual returns x with that
\* iteration's update (x + omega*residuum, mean corrected) applied.
C2_DivergenceIterate ==
    (Returned /\ broke) =>
        /\ solver = "richardson" => x = x_prev
        /\ solver = "minimal_residual" =>
               x = MeanCorrect(TAdd(x_prev, TScale(residuum_prev, omega)))

C2_Witness ==
    /\ Returned /\ broke /\ solver = "minimal_residual"
    /\ x # x_prev /\ res.kit >= 1

\* C3: cheby2TERM whose loop ended at kit = maxiter >= 1 with the last
\* normalized residual above tol prints the non-convergence message and
\* returns.
C3_NonConvergenceReturns ==
    ( /\ solver = "cheby2TERM" /\ Ended
      /\ res.kit >= 1 /\ res.kit = par.maxiter
      /\ Len(items) = res.kit + 1
      /\ RGt(items[res.kit + 1], par.tol) )
        => Returned /\ printed = "Chebyshev solver does not converges!"

\* C4: cheby2TERM with a right-hand side of norm zero and a valid eigrange
\* divides by nothing that is zero and returns at once: kit = 0, x the
\* initial guess.
C4_ZeroRhsReturns ==
    ( /\ solver = "cheby2TERM" /\ pc # "call"
      /\ TNorm(B) = Zero
      /\ ~parNone /\ "eigrange" \in DOMAIN par0 /\ par0.eigrange # <<Zero, Zero>> )
        => /\ Returned
           /\ res.kit = 0
           /\ x = (IF x0.none THEN B ELSE x0.val)
           /\ IsFinite(Ib)

\* C5: an iterate returned after at least one counted iteration has zero
\* spatial mean, in every solver: for iterates of finite entries, a mean
\* that is zero up to the rounding of the arithmetic.
C5_ZeroMean ==
    (Returned /\ res.kit >= 1 /\ FiniteT(x)) => RLt(RAbs(TMean(x)), <<1, 100>>)

\* C6: identity operator, B non-zero of zero mean, x0 zero, unit step
\* parameters, tol below the norm of B and at least one iteration allowed:
\* every solver returns kit = 1 and x = B.
C6_RoundTrip ==
    ( /\ Ended
      /\ Afun = Identity /\ B = Vec(1, -1) /\ ~x0.none /\ x0.val = Vec(0, 0)
      /\ ~parNone /\ {"tol", "maxiter"} \subseteq DOMAIN par0 /\ par0.maxiter >= 1
      /\ solver = "cheby2TERM" =>
             "eigrange" \in DOMAIN par0 /\ par0.eigrange = <<One, One>>
      /\ solver \in {"richardson", "richardson_debug"} =>
             par0.alpha = [type |-> "float", val |-> One]
      /\ solver = "minimal_residual" => ~par0.approx_omega )
        => Returned /\ res.kit = 1 /\ x = B

\* C7 as stated: richardson and richardson_debug fail exactly when alpha is
\* no real number; a float or an integer alpha gives omega = 1/alpha.
C7_RealAlphaAccepted ==
    (solver \in {"richardson", "richardson_debug"} /\ pc # "call") =>
        /\ exc # "None" <=> ~IsFloatOrInt(par.alpha)
        /\ IsFloatOrInt(par.alpha) => omega = RInv(par.alpha.val)

\* C7 as amended: richardson and richardson_debug raise ValueError exactly
\* when alpha is no float (an integer alpha included), before the operator is
\* applied; a non-zero float alpha is accepted with omega = 1/alpha, and the
\* float 0.0 raises ZeroDivisionError.
C7_FloatAlphaAccepted ==
    (solver \in {"richardson", "richardson_debug"} /\ pc # "call") =>
        /\ exc = "ValueError" <=> par.alpha.type # "float"
        /\ exc = "ValueError" => nAfun = 0
        /\ (par.alpha.type = "float" /\ par.alpha.val # Zero) =>
               exc = "None" /\ omega = RInv(par.alpha.val)
        /\ (par.alpha.type = "float" /\ par.alpha.val = Zero) =>
               exc = "ZeroDivisionError" /\ nAfun = 0

C7_Witness ==
    /\ solver = "richardson" /\ exc = "ValueError"
    /\ par.alpha.type = "int" /\ nAfun = 0

\* C8: cheby2TERM given no mapping, or one without eigrange, raises before
\* the operator is applied, before an iteration is counted and before the
\* callback is invoked, and has changed the caller's mapping by nothing but
\* the missing tol and maxiter defaults.
C8_MissingEigrange ==
    (solver = "cheby2TERM" /\ pc # "call" /\ (parNone \/ "eigrange" \notin DOMAIN par0)) =>
        /\ pc = "raised" /\ exc = "NotImplementedError"
        /\ nAfun = 0 /\ res.kit = 0 /\ nCallback = 0
        /\ ~parNone =>
               /\ \A k \in DOMAIN par0 : k \in DOMAIN par /\ par[k] = par0[k]
               /\ DOMAIN par \ DOMAIN par0 \subseteq {"tol", "maxiter"}

C8_Witness ==
    /\ solver = "cheby2TERM" /\ exc = "NotImplementedError"
    /\ ~parNone /\ callback
    /\ "tol" \in DOMAIN par0 /\ "maxiter" \notin DOMAIN par0 /\ "maxiter" \in DOMAIN par

\* the recurrence of the coefficient w, by iteration number
RECURSIVE WOfIteration(_, _, _)
WOfIteration(k, c, d) ==
    IF k = 1 THEN RInv(d)
    ELSE IF k = 2 THEN RInv(RSub(d, RDiv(RMul(c, c), RMul(<<2, 1>>, d))))
    ELSE RInv(RSub(d, RMul(RMul(RMul(c, c), WOfIteration(k - 1, c, d)), <<1, 4>>)))

\* p of iteration k >= 3
POfLaterIteration(k, c, d) ==
    RNeg(RMul(RMul(RMul(c, c), <<1, 4>>),
              RMul(WOfIteration(k - 1, c, d), WOfIteration(k - 1, c, d))))

\* iterations of cheby2TERM whose coefficients were computed
CoefficientsSet ==
    solver = "cheby2TERM" /\ res.kit >= 1 /\ exc # "ZeroDivisionError"

\* C9 as stated: iteration 1 uses p = 0, w = 1/d; iteration 2 uses
\* p = -(c/(2d))^2, w = 1/(d - c^2/(2d)); iteration k >= 3 uses
\* p = -(c^2/4)*w_prev^2, w = 1/(d - c^2*w_prev/4).
C9_Coefficients ==
    CoefficientsSet =>
        LET c == ChebyC(par.eigrange)
            d == ChebyD(par.eigrange)
            h == RDiv(c, RMul(<<2, 1>>, d))
        IN  /\ w = WOfIteration(res.kit, c, d)
            /\ p = IF res.kit = 1 THEN Zero
                   ELSE IF res.kit = 2 THEN RNeg(RMul(h, h))
                   ELSE POfLaterIteration(res.kit, c, d)

\* C9 as amended: as stated, but iteration 2 uses p = -(1/2)*(c/d)^2.
C9_CoefficientsHalf ==
    CoefficientsSet =>
        LET c == ChebyC(par.eigrange)
            d == ChebyD(par.eigrange)
            q == RDiv(c, d)
        IN  /\ w = WOfIteration(res.kit, c, d)
            /\ p = IF res.kit = 1 THEN Zero
                   ELSE IF res.kit = 2 THEN RNeg(RMul(<<1, 2>>, RMul(q, q)))
                   ELSE POfLaterIteration(res.kit, c, d)

C9_Witness ==
    /\ CoefficientsSet /\ res.kit >= 3
    /\ ChebyC(par.eigrange) # Zero
    /\ p # Zero /\ Len(items) = res.kit + 1

\* C10: with divcrit enabled, no entry of the history recorded by
\* minimal_residual or richardson is larger than the entry before it.
C10_HistoryNonIncreasing ==
    (solver \in {"minimal_residual", "richardson"} /\ par.divcrit) =>
        \A i \in 1..(Len(items) - 1) : ~RGt(items[i + 1], items[i])

C10_Witness ==
    /\ solver \in {"minimal_residual", "richardson"} /\ par.divcrit
    /\ Returned /\ broke /\ Len(items) >= 2
    /\ RGt(norm_res, items[Len(items)])
    /\ RLt(items[2], items[1])

====
